---- MODULE Spec2Model ----
(***************************************************************************)
(* A model of the three services of the repository: the auth service       *)
(* (key custody, registration, login, key publication), the post service   *)
(* (createPostHandler) and the search service (post.updated subscriber).   *)
(***************************************************************************)
EXTENDS Integers, Sequences, FiniteSets, TLC

\* ------------------------------------------------------------------ bounds

\* Distinct values uuid.New() may return.
MaxIds == 3
\* Distinct key pairs rsa.GenerateKey may produce.
MaxKeys == 1
\* Clock resolution: ticks per second (time.Time is finer than a second).
TicksPerSecond == 2
\* Latest instant time.Now() may return, in ticks.
MaxNow == 2

\* Posts that may be created: values uuid.New() of the post service returns.
MaxPosts == 2

\* ------------------------------------------------------- program constants

\* The length of the text of a UUID, which uuid.Parse accepts.
UUIDTextLen == 36

\* binding:"required,min=8"
MinPasswordLen == 8
\* time.Hour * 24, in seconds
TokenLifetime == 86400
\* bcrypt.DefaultCost
DefaultCost == 10

\* ------------------------------------------------------------------ inputs

\* Goroutines that run handlers concurrently.
Goroutines == {"g1", "g2"}

\* Emails are sequences of characters, so that their format can be examined.
EmailA == <<"a", "@", "x">>
EmailB == <<"b", "@", "x">>
EmailBad == <<"a", "x">>
Emails == {EmailA, EmailB, EmailBad}

Passwords == {"longpassword1", "wrongpass", "short"}

\* A body that is not JSON binds nothing: the request struct stays zero.
MalformedBody == [json |-> FALSE, email |-> <<>>, password |-> ""]
Bodies == {MalformedBody} \cup
          [json : {TRUE}, email : Emails, password : Passwords]

Ids == 1..MaxIds
Keys == 1..MaxKeys
Instants == 0..MaxNow

\* -------------------------------------------------------------- zero values

NoHash == [plain |-> "", cost |-> 0]
NoUser == [ID |-> 0, Username |-> <<>>, Password |-> NoHash]
NoKey == [D |-> 0, PublicKey |-> [N |-> 0]]
NoJWK == [kty |-> "", n |-> 0, d |-> 0, kid |-> <<>>, alg |-> ""]
NoBody == [kind |-> "none"]
NoResp == [status |-> 0, body |-> NoBody]

VARIABLES
    mainPc,      \* where main() of the auth service is
    dbPool,      \* "nil" | "open"
    rsaKey,      \* the private key
    rsaKeyJWK,   \* the JWK built from the public key
    jwkKeySet,   \* the published key set, a sequence of JWKs
    users,       \* the users table of the credential store
    handlers,    \* per goroutine: the handler it runs and its locals
    postPc,      \* post service: where createPostHandler is
    postReq,     \* post service: the request being handled
    newPost,     \* post service: the handler's newPost
    postResp,    \* post service: the handler's response
    posts,       \* post service: the posts table
    published,   \* events nc.Publish accepted, ever
    natsQueue,   \* post.updated messages in flight to the subscriber
    searchIndex  \* search service: posts_search_index, post_id -> content

authVars == <<mainPc, dbPool, rsaKey, rsaKeyJWK, jwkKeySet, users, handlers>>
postVars == <<postPc, postReq, newPost, postResp, posts, published, natsQueue,
              searchIndex>>
vars == <<mainPc, dbPool, rsaKey, rsaKeyJWK, jwkKeySet, users, handlers,
          postPc, postReq, newPost, postResp, posts, published, natsQueue,
          searchIndex>>

\* ------------------------------------------------------- library operations

\* The validator's "email" tag: a local part, one "@", a domain part.
IsEmail(e) ==
    \E i \in 2..(Len(e) - 1) :
        /\ e[i] = "@"
        /\ \A j \in 1..Len(e) : j # i => e[j] # "@"

\* binding:"required,email" on Email.
EmailErrors(struct, e) ==
    IF e = <<>> THEN <<struct \o ".Email:required">>
    ELSE IF ~IsEmail(e) THEN <<struct \o ".Email:email">>
    ELSE <<>>

\* Mutant: binding:"required" alone.
PasswordErrorsNoMin(struct, p) ==
    IF p = "" THEN <<struct \o ".Password:required">> ELSE <<>>

\* binding:"required,min=8" on Password.
PasswordErrors(struct, p) ==
    IF p = "" THEN <<struct \o ".Password:required">>
    ELSE IF Len(p) < MinPasswordLen THEN <<struct \o ".Password:min">>
    ELSE <<>>

\* c.ShouldBindJSON(&req): the lines of err.Error(), <<>> when err is nil.
ShouldBindJSON(struct, body) ==
    IF ~body.json THEN <<"invalid character looking for beginning of value">>
    ELSE EmailErrors(struct, body.email) \o PasswordErrors(struct, body.password)

\* bcrypt: a hash is a one-way image of the password that embeds its cost;
\* NoHash (the empty string) is no hash and matches nothing.
GenerateFromPassword(p, cost) == [plain |-> p, cost |-> cost]
CompareHashAndPassword(h, p) == h.cost # 0 /\ h.plain = p

\* rsa: the key pair that GenerateKey draws as its k-th; D is the private half.
GenerateKey(k) == [D |-> 0 - k, PublicKey |-> [N |-> k]]
\* The public key a private exponent belongs to.
PublicOf(d) == 0 - d

\* jwk.New on a public key: no private member.
JwkNew(pub) == [kty |-> "RSA", n |-> pub.N, d |-> 0, kid |-> <<>>, alg |-> ""]
\* jwk.AssignKeyID: the kid is the thumbprint of the public members.
AssignKeyID(key) == [key EXCEPT !.kid = <<"sha256", key.kty, key.n>>]
SetAlg(key, alg) == [key EXCEPT !.alg = alg]

\* RS256: a signature is made with D and verifies with the matching public key.
RS256Sign(key, msg) == [over |-> msg, with |-> PublicOf(key.D)]
Verify(jwkKey, token) ==
    /\ token.sig.with = jwkKey.n
    /\ token.sig.over = <<token.header, token.claims>>

\* time.Time.Unix(): whole seconds, the fraction dropped.
Unix(t) == t \div TicksPerSecond
\* t.Add(time.Hour * 24)
AddLifetime(t) == t + TokenLifetime * TicksPerSecond

\* ------------------------------------------------------- credential store

\* The users table rejects a row whose id or username is already present.
StoreAccepts(row) ==
    \A u \in users : u.ID # row.ID /\ u.Username # row.Username

\* uuid.New(): a value that no row carries yet.
FreshIds == {id \in Ids : \A u \in users : u.ID # id}
NewUUID == CHOOSE id \in FreshIds : \A other \in FreshIds : id <= other

\* SELECT id, username, password FROM users WHERE username = $1
RowsFor(email) == {u \in users : u.Username = email}

\* ---------------------------------------------------------------- responses

ErrorBody(lines) == [kind |-> "error", error |-> lines]
Resp(status, body) == [status |-> status, body |-> body]

IdleHandler ==
    [kind |-> "none", pc |-> "idle", req |-> MalformedBody, user |-> NoUser,
     hashed |-> NoHash, err |-> "nil", now |-> 0, known |-> FALSE,
     overlap |-> FALSE, resp |-> NoResp]

\* A handler that has sent its response.
Finish(h, err, resp) == [h EXCEPT !.pc = "done", !.err = err, !.resp = resp]

\* ------------------------------------------------------- auth service: main

\* Mutant: the router runs as soon as the store is connected.
ServingBeforeKeys == mainPc \in {"genkey", "jwk", "keyset", "run", "serving"}

\* r.Run has the router listening: handlers run from here on.
Serving == mainPc = "serving"

\* pgxpool.Connect; log.Fatalf on error.
MainConnect ==
    /\ mainPc = "connect"
    /\ \/ dbPool' = "open" /\ mainPc' = "genkey"
       \/ dbPool' = dbPool /\ mainPc' = "exited"
    /\ UNCHANGED <<rsaKey, rsaKeyJWK, jwkKeySet, users, handlers, postVars>>

\* rsa.GenerateKey(rand.Reader, 2048); log.Fatalf on error.
MainGenerateKey ==
    /\ mainPc = "genkey"
    /\ \/ \E k \in Keys : rsaKey' = GenerateKey(k) /\ mainPc' = "jwk"
       \/ rsaKey' = rsaKey /\ mainPc' = "exited"
    /\ UNCHANGED <<dbPool, rsaKeyJWK, jwkKeySet, users, handlers, postVars>>

\* Mutant: jwk.New(rsaKey), the JWK of the private key.
MainNewJWKOfPrivate ==
    /\ mainPc = "jwk"
    /\ \/ /\ rsaKeyJWK' =
                 [SetAlg(AssignKeyID(JwkNew(rsaKey.PublicKey)), "RS256")
                     EXCEPT !.d = rsaKey.D]
          /\ mainPc' = "keyset"
       \/ rsaKeyJWK' = rsaKeyJWK /\ mainPc' = "exited"
    /\ UNCHANGED <<dbPool, rsaKey, jwkKeySet, users, handlers, postVars>>

\* jwk.New(rsaKey.PublicKey); log.Fatalf on error; AssignKeyID; Set("alg").
MainNewJWK ==
    /\ mainPc = "jwk"
    /\ \/ /\ rsaKeyJWK' = SetAlg(AssignKeyID(JwkNew(rsaKey.PublicKey)), "RS256")
          /\ mainPc' = "keyset"
       \/ rsaKeyJWK' = rsaKeyJWK /\ mainPc' = "exited"
    /\ UNCHANGED <<dbPool, rsaKey, jwkKeySet, users, handlers, postVars>>

\* jwkKeySet = jwk.NewSet(); jwkKeySet.Add(rsaKeyJWK)
MainKeySet ==
    /\ mainPc = "keyset"
    /\ jwkKeySet' = Append(<<>>, rsaKeyJWK)
    /\ mainPc' = "run"
    /\ UNCHANGED <<dbPool, rsaKey, rsaKeyJWK, users, handlers, postVars>>

\* gin.Default(), the four routes, r.Run(":8080"): listening, or Run returns
\* an error (the port is taken) and main returns.
MainRun ==
    /\ mainPc = "run"
    /\ \/ mainPc' = "serving"
       \/ mainPc' = "exited"
    /\ UNCHANGED <<dbPool, rsaKey, rsaKeyJWK, jwkKeySet, users, handlers, postVars>>

\* --------------------------------------------------- auth service: handlers

keyVars == <<mainPc, dbPool, rsaKey, rsaKeyJWK, jwkKeySet>>

\* A goroutine takes a request when it runs no handler.
Free(g) == handlers[g].pc \in {"idle", "done"}

\* The handler's locals when the request arrives. known and overlap are
\* history: known records whether the store then held a row for the
\* request's email made from its password.
Arrived(kind, body) ==
    [IdleHandler EXCEPT
        !.kind = kind, !.pc = "bound", !.req = body,
        !.known = \E u \in RowsFor(body.email) :
                      CompareHashAndPassword(u.Password, body.password)]

\* The response to a body that does not bind.
BadRequest(lines) == Resp(400, ErrorBody(lines))

\* registerHandler: c.ShouldBindJSON(&req), 400 on error.
RegisterBind(g) ==
    /\ Serving /\ Free(g)
    /\ \E body \in Bodies :
          LET lines == ShouldBindJSON("RegisterRequest", body)
              h == Arrived("register", body)
          IN handlers' = [handlers EXCEPT ![g] =
                 IF lines # <<>> THEN Finish(h, "bind", BadRequest(lines))
                 ELSE h]
    /\ UNCHANGED <<keyVars, users, postVars>>

\* Mutant: a hashing failure is fatal, as start-up failures are.
RegisterHashFatal(g) ==
    /\ Serving
    /\ handlers[g].kind = "register" /\ handlers[g].pc = "bound"
    /\ \/ /\ handlers' = [handlers EXCEPT ![g] =
                 [@ EXCEPT !.pc = "hashed",
                           !.hashed = GenerateFromPassword(handlers[g].req.password,
                                                           DefaultCost)]]
          /\ mainPc' = mainPc
       \/ /\ handlers' = handlers
          /\ mainPc' = "exited"
    /\ UNCHANGED <<dbPool, rsaKey, rsaKeyJWK, jwkKeySet, users, postVars>>

\* registerHandler: bcrypt.GenerateFromPassword, 500 on error.
RegisterHash(g) ==
    /\ Serving
    /\ handlers[g].kind = "register" /\ handlers[g].pc = "bound"
    /\ \/ handlers' = [handlers EXCEPT ![g] =
              [@ EXCEPT !.pc = "hashed",
                        !.hashed = GenerateFromPassword(handlers[g].req.password,
                                                        DefaultCost)]]
       \/ handlers' = [handlers EXCEPT ![g] =
              Finish(@, "hash", Resp(500, ErrorBody(<<"Failed to hash password">>)))]
    /\ UNCHANGED <<keyVars, users, postVars>>

\* The body of the 201 response: gin.H{"id": ..., "email": ...}.
RegisteredBody(newUser) ==
    [kind |-> "user", id |-> newUser.ID, email |-> newUser.Username]

\* registerHandler: newUser with uuid.New(), the INSERT, 500 on error, 201.
RegisterInsert(g) ==
    /\ Serving
    /\ handlers[g].kind = "register" /\ handlers[g].pc = "hashed"
    /\ FreshIds # {}
    /\ \E id \in {NewUUID} :
          LET newUser == [ID |-> id, Username |-> handlers[g].req.email,
                          Password |-> handlers[g].hashed]
          IN \/ /\ StoreAccepts(newUser)
                /\ users' = users \cup {newUser}
                /\ handlers' = [handlers EXCEPT ![g] =
                       Finish(@, "nil", Resp(201, RegisteredBody(newUser)))]
             \/ /\ users' = users
                /\ handlers' = [handlers EXCEPT ![g] =
                       Finish(@, "insert",
                              Resp(500, ErrorBody(<<"Failed to register user">>)))]
    /\ UNCHANGED <<keyVars, postVars>>

\* loginHandler: c.ShouldBindJSON(&req), 400 on error.
LoginBind(g) ==
    /\ Serving /\ Free(g)
    /\ \E body \in Bodies :
          LET lines == ShouldBindJSON("loginRequest", body)
              h == Arrived("login", body)
          IN handlers' = [handlers EXCEPT ![g] =
                 IF lines # <<>> THEN Finish(h, "bind", BadRequest(lines))
                 ELSE h]
    /\ UNCHANGED <<keyVars, users, postVars>>

\* Mutant: an unknown email is reported as such.
UserNotFoundResponse == Resp(404, ErrorBody(<<"User not found">>))

\* The response when QueryRow(...).Scan returns an error.
NotFoundResponse == Resp(401, ErrorBody(<<"Invalid email or password">>))
\* The response when bcrypt.CompareHashAndPassword returns an error.
MismatchResponse == Resp(401, ErrorBody(<<"Invalid email or password">>))

\* Mutant: the SELECT has no WHERE clause.
LoginQueryAnyRow(g) ==
    /\ Serving
    /\ handlers[g].kind = "login" /\ handlers[g].pc = "bound"
    /\ \/ \E u \in users :
             handlers' = [handlers EXCEPT ![g] =
                 [@ EXCEPT !.pc = "queried", !.user = u]]
       \/ /\ users = {}
          /\ handlers' = [handlers EXCEPT ![g] =
                 Finish(@, "norows", NotFoundResponse)]
       \/ handlers' = [handlers EXCEPT ![g] =
              Finish(@, "store", NotFoundResponse)]
    /\ UNCHANGED <<keyVars, users, postVars>>

\* loginHandler: the SELECT by username and Scan: a row, pgx.ErrNoRows, or
\* another error of the store.
LoginQuery(g) ==
    /\ Serving
    /\ handlers[g].kind = "login" /\ handlers[g].pc = "bound"
    /\ \/ \E u \in RowsFor(handlers[g].req.email) :
             handlers' = [handlers EXCEPT ![g] =
                 [@ EXCEPT !.pc = "queried", !.user = u]]
       \/ /\ RowsFor(handlers[g].req.email) = {}
          /\ handlers' = [handlers EXCEPT ![g] =
                 Finish(@, "norows", NotFoundResponse)]
       \/ handlers' = [handlers EXCEPT ![g] =
              Finish(@, "store", NotFoundResponse)]
    /\ UNCHANGED <<keyVars, users, postVars>>

\* Mutant: the result of the comparison is dropped.
LoginCompareIgnored(g) ==
    /\ Serving
    /\ handlers[g].kind = "login" /\ handlers[g].pc = "queried"
    /\ handlers' = [handlers EXCEPT ![g] = [@ EXCEPT !.pc = "compared"]]
    /\ UNCHANGED <<keyVars, users, postVars>>

\* Whether another goroutine is inside loginHandler right now.
OtherLoginInFlight(g) ==
    \E o \in Goroutines \ {g} :
        /\ handlers[o].kind = "login"
        /\ handlers[o].pc \in {"bound", "queried", "compared"}

\* loginHandler: bcrypt.CompareHashAndPassword, 401 on error. overlap records
\* that the comparison ran while another login was in flight.
LoginCompare(g) ==
    /\ Serving
    /\ handlers[g].kind = "login" /\ handlers[g].pc = "queried"
    /\ handlers' = [handlers EXCEPT ![g] =
           IF CompareHashAndPassword(@.user.Password, @.req.password)
           THEN [@ EXCEPT !.pc = "compared", !.overlap = OtherLoginInFlight(g)]
           ELSE Finish(@, "mismatch", MismatchResponse)]
    /\ UNCHANGED <<keyVars, users, postVars>>

\* Mutant: the seconds are taken before the lifetime is added, in ticks.
TokenClaimsUnixFirst(user, now) ==
    [sub |-> user.ID, email |-> user.Username, roles |-> <<"user">>,
     exp |-> AddLifetime(Unix(now))]

\* jwt.MapClaims{...} of loginHandler, built at instant now.
TokenClaims(user, now) ==
    [sub |-> user.ID, email |-> user.Username, roles |-> <<"user">>,
     exp |-> Unix(AddLifetime(now))]

\* jwt.NewWithClaims(jwt.SigningMethodRS256, claims); Header["kid"] = KeyID().
NewToken(user, now) ==
    [header |-> [alg |-> "RS256", typ |-> "JWT", kid |-> rsaKeyJWK.kid],
     claims |-> TokenClaims(user, now)]

\* token.SignedString(rsaKey)
SignedString(token, key) ==
    [header |-> token.header, claims |-> token.claims,
     sig |-> RS256Sign(key, <<token.header, token.claims>>)]

\* loginHandler: the token, its signature, 500 on error, 200.
LoginSign(g) ==
    /\ Serving
    /\ handlers[g].kind = "login" /\ handlers[g].pc = "compared"
    /\ \/ \E now \in Instants :
             LET h == [handlers[g] EXCEPT !.now = now]
                 tokenString == SignedString(NewToken(h.user, now), rsaKey)
             IN handlers' = [handlers EXCEPT ![g] =
                    Finish(h, "nil",
                           Resp(200, [kind |-> "token", token |-> tokenString]))]
       \/ handlers' = [handlers EXCEPT ![g] =
              Finish(@, "sign",
                     Resp(500, ErrorBody(<<"Failed to create token">>)))]
    /\ UNCHANGED <<keyVars, users, postVars>>

\* Mutant: the handler adds the key to the set before serving it.
JwkHandlerAdds(g) ==
    /\ Serving /\ Free(g)
    /\ jwkKeySet' = Append(jwkKeySet, rsaKeyJWK)
    /\ handlers' = [handlers EXCEPT ![g] =
           Finish([IdleHandler EXCEPT !.kind = "jwk"], "nil",
                  Resp(200, [kind |-> "keys", keys |-> jwkKeySet']))]
    /\ UNCHANGED <<mainPc, dbPool, rsaKey, rsaKeyJWK, users, postVars>>

\* jwkHandler: c.JSON(http.StatusOK, jwkKeySet)
JwkHandler(g) ==
    /\ Serving /\ Free(g)
    /\ handlers' = [handlers EXCEPT ![g] =
           Finish([IdleHandler EXCEPT !.kind = "jwk"], "nil",
                  Resp(200, [kind |-> "keys", keys |-> jwkKeySet]))]
    /\ UNCHANGED <<keyVars, users, postVars>>

\* healthCheckHandler: dbPool.Ping, 500 on error, 200.
HealthCheckHandler(g) ==
    /\ Serving /\ Free(g)
    /\ \/ handlers' = [handlers EXCEPT ![g] =
              Finish([IdleHandler EXCEPT !.kind = "health"], "nil",
                     Resp(200, [kind |-> "health", status |-> "healthy"]))]
       \/ handlers' = [handlers EXCEPT ![g] =
              Finish([IdleHandler EXCEPT !.kind = "health"], "ping",
                     Resp(500, [kind |-> "health", status |-> "unhealthy"]))]
    /\ UNCHANGED <<keyVars, users, postVars>>

\* ------------------------------------------- post service and search service

\* Titles and contents of a CreatePostRequest; "" is a missing field.
Titles == {"", "hello"}
Contents == {"", "first words", "other words"}
\* Values of the X-Krakend-Sub header: absent, not a UUID, a UUID.
SubHeaders == {"", "not-a-uuid", "6ba7b810-9dad-11d1-80b4-00c04fd430c8"}
PostRequests == [title : Titles, content : Contents, sub : SubHeaders]
PostIds == 1..MaxPosts

NoPostRequest == [title |-> "", content |-> "", sub |-> ""]
NoPost == [ID |-> 0, UserID |-> "", Title |-> "", Content |-> ""]

\* uuid.Parse: the length of the text selects the format; the inputs differ
\* in it.
UUIDParseFails(text) == Len(text) # UUIDTextLen

\* binding:"required" on Title and Content.
PostBindErrors(req) ==
    (IF req.title = "" THEN <<"CreatePostRequest.Title:required">> ELSE <<>>)
    \o (IF req.content = "" THEN <<"CreatePostRequest.Content:required">>
        ELSE <<>>)

\* uuid.New() of the post service: a value no post and no message carries.
FreshPostIds ==
    {id \in PostIds : /\ \A q \in posts : q.ID # id
                      /\ \A e \in published : e.id.text # id}
NewPostUUID == CHOOSE id \in FreshPostIds : \A other \in FreshPostIds : id <= other

\* newPost.ID.String(), and its parse back by json.Unmarshal into uuid.UUID.
UUIDString(id) == [text |-> id]
UUIDFromString(str) == str.text

\* PostEvent{ID: newPost.ID.String(), Title: ..., Content: ...}
EventOf(post) ==
    [id |-> UUIDString(post.ID), title |-> post.Title, content |-> post.Content]

\* createPostHandler: c.ShouldBindJSON(&req), 400 on error.
CreatePostBind ==
    /\ postPc \in {"idle", "done"}
    /\ \E req \in PostRequests :
          /\ postReq' = req
          /\ newPost' = NoPost
          /\ IF PostBindErrors(req) # <<>>
             THEN /\ postPc' = "done"
                  /\ postResp' = Resp(400, ErrorBody(PostBindErrors(req)))
             ELSE /\ postPc' = "bound"
                  /\ postResp' = NoResp
    /\ UNCHANGED <<authVars, posts, published, natsQueue, searchIndex>>

\* createPostHandler: uuid.Parse of X-Krakend-Sub, 400 on error; newPost.
CreatePostParseSub ==
    /\ postPc = "bound"
    /\ FreshPostIds # {}
    /\ IF UUIDParseFails(postReq.sub)
       THEN /\ postPc' = "done"
            /\ postResp' = Resp(400, ErrorBody(<<"Invalid user ID">>))
            /\ newPost' = newPost
       ELSE /\ postPc' = "built"
            /\ newPost' = [ID |-> NewPostUUID, UserID |-> postReq.sub,
                           Title |-> postReq.title, Content |-> postReq.content]
            /\ postResp' = postResp
    /\ UNCHANGED <<authVars, postReq, posts, published, natsQueue, searchIndex>>

\* createPostHandler: the INSERT INTO posts, 500 on error.
CreatePostInsert ==
    /\ postPc = "built"
    /\ \/ /\ posts' = posts \cup {newPost}
          /\ postPc' = "inserted"
          /\ postResp' = postResp
       \/ /\ posts' = posts
          /\ postPc' = "done"
          /\ postResp' = Resp(500, ErrorBody(<<"Failed to create post">>))
    /\ UNCHANGED <<authVars, postReq, newPost, published, natsQueue, searchIndex>>

\* createPostHandler: json.Marshal of the event (a struct of three strings
\* always marshals), nc.Publish, whose error is only logged, and the 201.
CreatePostPublish ==
    /\ postPc = "inserted"
    /\ \/ /\ published' = published \cup {EventOf(newPost)}
          /\ natsQueue' = Append(natsQueue, EventOf(newPost))
       \/ /\ published' = published
          /\ natsQueue' = natsQueue
    /\ postPc' = "done"
    /\ postResp' = Resp(201, [kind |-> "post", post |-> newPost])
    /\ UNCHANGED <<authVars, postReq, newPost, posts, searchIndex>>

\* INSERT ... ON CONFLICT (post_id) DO UPDATE SET content = EXCLUDED.content
Upsert(index, id, content) ==
    {row \in index : row.post_id # id}
        \cup {[post_id |-> id, content |-> content]}

\* The post.updated subscriber: json.Unmarshal, then upsertPost, whose error
\* is only logged.
SearchOnPostUpdated ==
    /\ natsQueue # <<>>
    /\ natsQueue' = Tail(natsQueue)
    /\ LET post == [ID |-> UUIDFromString(Head(natsQueue).id),
                    Title |-> Head(natsQueue).title,
                    Content |-> Head(natsQueue).content]
       IN \/ searchIndex' = Upsert(searchIndex, post.ID, post.Content)
          \/ searchIndex' = searchIndex
    /\ UNCHANGED <<authVars, postPc, postReq, newPost, postResp, posts, published>>

\* ------------------------------------------------------------ specification

InitPost ==
    /\ postPc = "idle"
    /\ postReq = NoPostRequest
    /\ newPost = NoPost
    /\ postResp = NoResp
    /\ posts = {}
    /\ published = {}
    /\ natsQueue = <<>>
    /\ searchIndex = {}

InitAuth ==
    /\ mainPc = "connect"
    /\ dbPool = "nil"
    /\ rsaKey = NoKey
    /\ rsaKeyJWK = NoJWK
    /\ jwkKeySet = <<>>
    /\ users = {}
    /\ handlers = [g \in Goroutines |-> IdleHandler]

Init == InitAuth /\ InitPost

Next ==
    \/ MainConnect
    \/ MainGenerateKey
    \/ MainNewJWK
    \/ MainKeySet
    \/ MainRun
    \/ \E g \in Goroutines :
          \/ RegisterBind(g)
          \/ RegisterHash(g)
          \/ RegisterInsert(g)
          \/ LoginBind(g)
          \/ LoginQuery(g)
          \/ LoginCompare(g)
          \/ LoginSign(g)
          \/ JwkHandler(g)
          \/ HealthCheckHandler(g)

Spec == Init /\ [][Next]_vars

NextPost ==
    \/ CreatePostBind
    \/ CreatePostParseSub
    \/ CreatePostInsert
    \/ CreatePostPublish
    \/ SearchOnPostUpdated

\* The post and search services alone.
SpecPost == Init /\ [][NextPost]_vars

\* ------------------------------------------------------------------ claims

H(g) == handlers[g]
Range(s) == {s[i] : i \in 1..Len(s)}
LoginDone(g) == H(g).kind = "login" /\ H(g).pc = "done"
\* A body that the binding tags of RegisterRequest and loginRequest reject.
Rejectable(body) ==
    \/ ~body.json
    \/ ~IsEmail(body.email)
    \/ Len(body.password) < MinPasswordLen

\* C1: loginHandler answers 200 with a token only when the store returned a
\* row for the request's email and the request's password matched that row's
\* hash; a bad body, no row, a store error, a mismatch or a signing failure
\* never yields a token, and no other handler returns one.
C1_TokenOnlyAfterRowAndMatch ==
    \A g \in Goroutines :
        /\ (H(g).resp.status = 200 /\ H(g).kind = "login") =>
              /\ H(g).resp.body.kind = "token"
              /\ H(g).err = "nil"
              /\ ~Rejectable(H(g).req)
              /\ H(g).user \in users
              /\ H(g).user.Username = H(g).req.email
              /\ H(g).user.Password.cost # 0
              /\ H(g).user.Password.plain = H(g).req.password
        /\ H(g).resp.body.kind = "token" =>
              H(g).kind = "login" /\ H(g).resp.status = 200
        /\ (LoginDone(g) /\ H(g).err # "nil") => H(g).resp.body.kind = "error"

C1_Witness ==
    \E g \in Goroutines : LoginDone(g) /\ H(g).resp.status = 200

\* C2: a well-formed login for an email with no row and a well-formed login
\* for a registered email with a wrong password get the same status, 401, and
\* the same body.
C2_SameUnauthorized ==
    \A g1, g2 \in Goroutines :
        (/\ LoginDone(g1) /\ ~Rejectable(H(g1).req) /\ H(g1).err = "norows"
         /\ LoginDone(g2) /\ ~Rejectable(H(g2).req) /\ H(g2).err = "mismatch")
        => /\ H(g1).resp = H(g2).resp
           /\ H(g1).resp.status = 401

C2_Witness ==
    \E g1, g2 \in Goroutines :
        /\ LoginDone(g1) /\ H(g1).err = "norows" /\ H(g1).user = NoUser
        /\ LoginDone(g2) /\ H(g2).err = "mismatch" /\ H(g2).user \in users

\* C3: the token of a successful login has sub = the id of the stored row for
\* the request's email, email = that row's username, roles = <<"user">>,
\* exp = the issuance instant plus 24 hours (as Unix seconds, the unit of
\* exp), and a header kid equal to the kid of the one published key.
C3_TokenClaims ==
    \A g \in Goroutines :
        (LoginDone(g) /\ H(g).resp.status = 200) =>
            LET t == H(g).resp.body.token IN
            /\ \E u \in users : /\ u.Username = H(g).req.email
                                /\ t.claims.sub = u.ID
                                /\ t.claims.email = u.Username
            /\ t.claims.roles = <<"user">>
            /\ t.claims.exp = Unix(H(g).now) + TokenLifetime
            /\ Len(jwkKeySet) = 1
            /\ t.header.kid = jwkKeySet[1].kid
            /\ t.header.kid # <<>>

\* A token issued at an instant that is not on a second's boundary.
C3_Witness ==
    \E g \in Goroutines :
        /\ LoginDone(g) /\ H(g).resp.status = 200
        /\ H(g).now % TicksPerSecond # 0

\* What C4 says of one state: one published key, the public half of rsaKey,
\* that verifies every token returned and is what /.jwk returned.
C4_OneKey ==
    mainPc = "serving" =>
        /\ Len(jwkKeySet) = 1
        /\ jwkKeySet[1] = rsaKeyJWK
        /\ jwkKeySet[1].n = rsaKey.PublicKey.N
        /\ rsaKey.PublicKey.N = PublicOf(rsaKey.D)
        /\ \A g \in Goroutines :
              /\ H(g).resp.body.kind = "token" =>
                    Verify(jwkKeySet[1], H(g).resp.body.token)
              /\ H(g).resp.body.kind = "keys" =>
                    H(g).resp.body.keys = jwkKeySet

\* C4: while the service serves, the key set holds exactly one key, the public
\* half of the key that signed every token, and no step writes the key pair,
\* the JWK or the key set.
C4_KeySetFixed ==
    /\ []C4_OneKey
    /\ [][mainPc = "serving" =>
            /\ mainPc' = "serving"
            /\ UNCHANGED <<rsaKey, rsaKeyJWK, jwkKeySet>>]_vars

C4_Witness ==
    \E g1, g2 \in Goroutines :
        /\ H(g1).resp.body.kind = "token"
        /\ H(g2).resp.body.kind = "keys"

\* C5: a handler has run only if main connected the store and built the key
\* pair, the JWK with its kid and the key set; after a fatal start-up failure
\* no handler has ever run.
C5_NoHandlerBeforeStartup ==
    /\ (\E g \in Goroutines : H(g) # IdleHandler) =>
          /\ mainPc = "serving"
          /\ dbPool = "open"
          /\ rsaKey # NoKey
          /\ rsaKeyJWK.n = rsaKey.PublicKey.N
          /\ rsaKeyJWK.kid # <<>>
          /\ rsaKeyJWK.alg = "RS256"
          /\ jwkKeySet = <<rsaKeyJWK>>
    /\ mainPc # "serving" => \A g \in Goroutines : H(g) = IdleHandler

C5_Witness ==
    \E g1, g2 \in Goroutines :
        /\ H(g1).kind = "register" /\ H(g1).pc = "hashed"
        /\ H(g2).kind = "jwk" /\ H(g2).pc = "done"

\* What C6 says of one state: a rejectable register or login body has been
\* answered 400 with no hash computed and no row read, and every row of the
\* store comes from a body that binds.
C6_Rejected ==
    /\ \A g \in Goroutines :
          (H(g).kind \in {"register", "login"} /\ Rejectable(H(g).req)) =>
              /\ H(g).pc = "done"
              /\ H(g).err = "bind"
              /\ H(g).resp.status = 400
              /\ H(g).hashed = NoHash
              /\ H(g).user = NoUser
    /\ \A u \in users :
          IsEmail(u.Username) /\ Len(u.Password.plain) >= MinPasswordLen

\* C6: a register or login body that fails validation is answered 400 before
\* any hash, insert, lookup or comparison, and the step that rejects it
\* leaves the store as it was.
C6_RejectedBeforeWork ==
    /\ []C6_Rejected
    /\ [][(\E g \in Goroutines :
              /\ handlers'[g] # handlers[g]
              /\ Rejectable(handlers'[g].req)
              /\ handlers'[g].kind \in {"register", "login"})
          => users' = users]_vars

C6_Witness ==
    /\ users # {}
    /\ \E g1, g2 \in Goroutines :
          /\ H(g1).kind = "register" /\ H(g1).resp.status = 400
          /\ H(g1).req.json /\ IsEmail(H(g1).req.email)
          /\ H(g2).kind = "login" /\ H(g2).resp.status = 400

\* C7: a login that arrived when the store held a row for its email made from
\* its password, and met no store or signing failure, succeeds whatever the
\* other goroutine does, and its token carries the id and email of the row of
\* its own request; two tokens for different emails carry different subs.
C7_ConcurrentLogins ==
    /\ \A g \in Goroutines :
          (LoginDone(g) /\ H(g).known /\ H(g).err \notin {"store", "sign"}) =>
              /\ H(g).resp.status = 200
              /\ H(g).resp.body.token.claims.email = H(g).req.email
              /\ \E u \in users :
                    /\ u.Username = H(g).req.email
                    /\ u.ID = H(g).resp.body.token.claims.sub
    /\ \A g1, g2 \in Goroutines :
          (/\ H(g1).resp.body.kind = "token" /\ H(g2).resp.body.kind = "token"
           /\ H(g1).req.email # H(g2).req.email)
          => H(g1).resp.body.token.claims.sub # H(g2).resp.body.token.claims.sub

\* Two logins for two registered users, each of which ran while the other
\* was in flight, both answered 200.
C7_Witness ==
    \E g1, g2 \in Goroutines :
        /\ g1 # g2
        /\ H(g1).overlap /\ H(g2).overlap
        /\ LoginDone(g1) /\ LoginDone(g2)
        /\ H(g1).known /\ H(g2).known
        /\ H(g1).req.email # H(g2).req.email
        /\ H(g1).resp.status = 200 /\ H(g2).resp.status = 200

\* What C8 says of one state: the status of each failure, and a goroutine
\* that has answered takes further requests.
C8_Statuses ==
    \A g \in Goroutines :
        H(g).pc = "done" =>
            /\ mainPc = "serving"
            /\ H(g).err = "bind" => H(g).resp.status = 400
            /\ H(g).err \in {"norows", "store", "mismatch"} =>
                  H(g).resp.status = 401
            /\ H(g).err \in {"hash", "insert", "sign"} =>
                  /\ H(g).resp.status = 500
                  /\ H(g).resp.body.kind = "error"
                  /\ Len(H(g).resp.body.error) = 1
            /\ ENABLED RegisterBind(g)
            /\ ENABLED LoginBind(g)

\* C8: once serving, no step ends the process; validation failures give 400,
\* authentication failures 401, hashing, insert and signing failures 500, and
\* the service goes on taking requests.
C8_RequestsNeverFatal ==
    /\ []C8_Statuses
    /\ [][mainPc = "serving" => mainPc' = "serving"]_vars

C8_Witness ==
    \E g1, g2 \in Goroutines :
        /\ H(g1).pc = "done" /\ H(g1).err = "hash"
        /\ H(g2).pc = "done" /\ H(g2).err = "sign"

C10_CreatedImpliesPublished ==
    /\ postResp.status = 201 =>
          /\ newPost \in posts
          /\ EventOf(newPost) \in published
    /\ (postPc = "done" /\ postResp.status \in {400, 500}) =>
          /\ newPost \notin posts
          /\ EventOf(newPost) \notin published

====
